---- MODULE Spec2Model ----
(***************************************************************************)
(* Token ledger (purchase_tokens, tip_creator) and access gating           *)
(* (list_posts, subscribe, add_comment) of the creator platform API.       *)
(* Every pymongo call of a handler is one atomic step on the store; the    *)
(* handlers of concurrent requests interleave between those calls.         *)
(***************************************************************************)
EXTENDS Integers, Sequences, FiniteSets, TLC

\* ------------------------------------------------------------------ bounds
NumProcs == 2
MaxAmount == 2
MaxInitBalance == 3
MaxPosts == 2
MaxSubs == 2
MaxComments == 1
MaxTier == 3

\* Post.access_level_required: Field(1, ge=1, le=10)
MinLevel == 1
MaxLevel == 10

VARIABLES
    users,      \* db["user"]: _id -> document (token_balance)
    users0,     \* db["user"] as it was before the first request
    txlog,      \* db["tokentransaction"], in insertion order
    pc,         \* per request: the store call its handler makes next
    req,        \* per request: the payload
    local,      \* per request: the documents its handler has read
    result,     \* per request: the response, once the handler has ended
    posts,      \* db["post"], in insertion order; a post's _id is its index
    subs,       \* db["subscription"]
    comments,   \* db["comment"]
    response    \* the last response of a content endpoint

ledgerVars == <<users, users0, txlog, pc, req, local, result>>
gateVars == <<posts, subs, comments, response>>
vars == <<users, users0, txlog, pc, req, local, result, posts, subs, comments, response>>

Procs == 1..NumProcs
UserIds == {"a", "b"}
\* the amounts tried: a rejected one, the smallest accepted one and a larger one
Amounts == {0, 1, MaxAmount}

NoDoc == [exists |-> FALSE, token_balance |-> 0]
UserDoc(balance) == [exists |-> TRUE, token_balance |-> balance]
GuestDoc == UserDoc(0)

NoReq == [kind |-> "none", from_user_id |-> "a", to_user_id |-> "a", amount |-> 0]
PurchaseTokensRequest(user_id, amount) ==
    [kind |-> "purchase", from_user_id |-> user_id, to_user_id |-> user_id, amount |-> amount]
TipRequest(from_user_id, to_user_id, amount) ==
    [kind |-> "tip", from_user_id |-> from_user_id, to_user_id |-> to_user_id, amount |-> amount]

TokenTransaction(from_user_id, to_user_id, amount, kind) ==
    [from_user_id |-> from_user_id, to_user_id |-> to_user_id, amount |-> amount, kind |-> kind]

NoLocal == [user |-> NoDoc, to_user |-> NoDoc]
Pending == [status |-> "pending", token_balance |-> 0]
Response(status) == [status |-> status, token_balance |-> 0]

\* db["user"].find_one({"_id": {"$eq": id}})
find_one(coll, id) == coll[id]

\* a $set written where the $inc is meant
update_inc_as_set(coll, id, delta) ==
    IF coll[id].exists
    THEN [coll EXCEPT ![id].token_balance = delta]
    ELSE coll

\* db["user"].update_one({"_id": id}, {"$inc": {"token_balance": delta}})
update_inc(coll, id, delta) ==
    IF coll[id].exists
    THEN [coll EXCEPT ![id].token_balance = @ + delta]
    ELSE coll

\* db["user"].update_one({"_id": id}, {"$set": {"token_balance": balance}})
update_set(coll, id, balance) ==
    IF coll[id].exists
    THEN [coll EXCEPT ![id].token_balance = balance]
    ELSE coll

\* create_document(collection, document): one more document in the collection
create_document(coll, doc) == Append(coll, doc)

InvalidAmount(amount) == amount <= 0

\* the stored balance left out of the sum
new_balance_amount_only(user, amount) == amount

new_balance(user, amount) == user.token_balance + amount

Insufficient(balance, amount) == balance < amount

\* the handler returns or raises: its frame (the documents it read) is gone
Finish(p, r) ==
    /\ pc' = [pc EXCEPT ![p] = "done"]
    /\ result' = [result EXCEPT ![p] = r]
    /\ local' = [local EXCEPT ![p] = NoLocal]

\* the handler goes on to its next store call with the frame it holds
Goto(p, label, frame) ==
    /\ pc' = [pc EXCEPT ![p] = label]
    /\ local' = [local EXCEPT ![p] = frame]
    /\ UNCHANGED result

\* the accounts earlier purchases and tips have left in the store
InitialStores == [UserIds -> {NoDoc} \cup {UserDoc(b) : b \in {0, MaxInitBalance}}]

NoResponse ==
    [op |-> "none", id |-> "a", tier_level |-> 0, given |-> FALSE,
     post_id |-> 0, status |-> 0, items |-> <<>>]

GateInit ==
    /\ posts = <<>>
    /\ subs = {}
    /\ comments = {}
    /\ response = NoResponse

LedgerInit(stores) ==
    /\ users0 \in stores
    /\ users = users0
    /\ txlog = <<>>
    /\ pc = [p \in Procs |-> "idle"]
    /\ req = [p \in Procs |-> NoReq]
    /\ local = [p \in Procs |-> NoLocal]
    /\ result = [p \in Procs |-> Pending]

Init == LedgerInit(InitialStores) /\ GateInit

\* ------------------------------------------------------- purchase_tokens
StartPurchase(p) ==
    /\ pc[p] = "idle"
    /\ \E user_id \in UserIds, amount \in Amounts :
        /\ req' = [req EXCEPT ![p] = PurchaseTokensRequest(user_id, amount)]
        /\ IF InvalidAmount(amount)
           THEN Finish(p, Response("InvalidAmount"))
           ELSE Goto(p, "p_find", NoLocal)
    /\ UNCHANGED <<users, users0, txlog, gateVars>>

PurchaseFind(p) ==
    /\ pc[p] = "p_find"
    /\ LET user == find_one(users, req[p].from_user_id)
       IN  IF user.exists
           THEN Goto(p, "p_update", [local[p] EXCEPT !.user = user])
           ELSE Goto(p, "p_insert", [local[p] EXCEPT !.user = user])
    /\ UNCHANGED <<users, users0, txlog, req, gateVars>>

\* insert_one raises DuplicateKeyError when the _id is already stored
PurchaseInsert(p) ==
    /\ pc[p] = "p_insert"
    /\ IF users[req[p].from_user_id].exists
       THEN /\ Finish(p, Response("DuplicateKey"))
            /\ UNCHANGED users
       ELSE /\ users' = [users EXCEPT ![req[p].from_user_id] = GuestDoc]
            /\ Goto(p, "p_refind", local[p])
    /\ UNCHANGED <<users0, txlog, req, gateVars>>

PurchaseRefind(p) ==
    /\ pc[p] = "p_refind"
    /\ Goto(p, "p_update", [local[p] EXCEPT !.user = find_one(users, req[p].from_user_id)])
    /\ UNCHANGED <<users, users0, txlog, req, gateVars>>

PurchaseUpdate(p) ==
    /\ pc[p] = "p_update"
    /\ users' = update_set(users, req[p].from_user_id, new_balance(local[p].user, req[p].amount))
    /\ Goto(p, "p_log", local[p])
    /\ UNCHANGED <<users0, txlog, req, gateVars>>

PurchaseLog(p) ==
    /\ pc[p] = "p_log"
    /\ txlog' = create_document(txlog, TokenTransaction("None", "None", req[p].amount, "purchase"))
    /\ Finish(p, [status |-> "ok", token_balance |-> new_balance(local[p].user, req[p].amount)])
    /\ UNCHANGED <<users, users0, req, gateVars>>

\* ----------------------------------------------------------- tip_creator
StartTip(p) ==
    /\ pc[p] = "idle"
    /\ \E from_user_id \in UserIds, to_user_id \in UserIds, amount \in Amounts :
        /\ req' = [req EXCEPT ![p] = TipRequest(from_user_id, to_user_id, amount)]
        /\ IF InvalidAmount(amount)
           THEN Finish(p, Response("InvalidAmount"))
           ELSE Goto(p, "t_find_from", NoLocal)
    /\ UNCHANGED <<users, users0, txlog, gateVars>>

TipFindFrom(p) ==
    /\ pc[p] = "t_find_from"
    /\ Goto(p, "t_find_to", [local[p] EXCEPT !.user = find_one(users, req[p].from_user_id)])
    /\ UNCHANGED <<users, users0, txlog, req, gateVars>>

\* the debit made before the balance check
TipFindTo_DebitFirst(p) ==
    /\ pc[p] = "t_find_to"
    /\ LET from_user == local[p].user
           to_user == find_one(users, req[p].to_user_id)
       IN  IF ~from_user.exists \/ ~to_user.exists
           THEN Finish(p, Response("AccountNotFound")) /\ UNCHANGED users
           ELSE /\ users' = update_inc(users, req[p].from_user_id, -req[p].amount)
                /\ IF Insufficient(from_user.token_balance, req[p].amount)
                   THEN Finish(p, Response("InsufficientBalance"))
                   ELSE Goto(p, "t_credit", [local[p] EXCEPT !.to_user = to_user])
    /\ UNCHANGED <<users0, txlog, req, gateVars>>

\* the second lookup and the checks on what the two lookups returned
TipFindTo(p) ==
    /\ pc[p] = "t_find_to"
    /\ LET from_user == local[p].user
           to_user == find_one(users, req[p].to_user_id)
       IN  IF ~from_user.exists \/ ~to_user.exists
           THEN Finish(p, Response("AccountNotFound"))
           ELSE IF Insufficient(from_user.token_balance, req[p].amount)
                THEN Finish(p, Response("InsufficientBalance"))
                ELSE Goto(p, "t_debit", [local[p] EXCEPT !.to_user = to_user])
    /\ UNCHANGED <<users, users0, txlog, req, gateVars>>

TipDebit(p) ==
    /\ pc[p] = "t_debit"
    /\ users' = update_inc(users, req[p].from_user_id, -req[p].amount)
    /\ Goto(p, "t_credit", local[p])
    /\ UNCHANGED <<users0, txlog, req, gateVars>>

TipCredit(p) ==
    /\ pc[p] = "t_credit"
    /\ users' = update_inc(users, req[p].to_user_id, req[p].amount)
    /\ Goto(p, "t_log", local[p])
    /\ UNCHANGED <<users0, txlog, req, gateVars>>

TipLog(p) ==
    /\ pc[p] = "t_log"
    /\ txlog' = create_document(txlog,
                    TokenTransaction(req[p].from_user_id, req[p].to_user_id, req[p].amount, "tip"))
    /\ Finish(p, Response("ok"))
    /\ UNCHANGED <<users, users0, req, gateVars>>

\* A pymongo call raises (the store is unreachable): the handler has no
\* try/except, so the request ends there with a server error.
DbSteps == {"p_find", "p_insert", "p_refind", "p_update", "p_log",
            "t_find_from", "t_find_to", "t_debit", "t_credit", "t_log"}

StorageFails(p) ==
    /\ pc[p] \in DbSteps
    /\ Finish(p, Response("StorageUnavailable"))
    /\ UNCHANGED <<users, users0, txlog, req, gateVars>>

\* ------------------------------------------------------------ the posts
Post(creator_id, access_level_required, is_draft) ==
    [creator_id |-> creator_id, access_level_required |-> access_level_required,
     is_draft |-> is_draft]

\* pydantic validation of the request body
ValidPost(post) ==
    /\ post.access_level_required >= MinLevel
    /\ post.access_level_required <= MaxLevel

DefaultPost(creator_id) == Post(creator_id, 1, FALSE)

\* $lt written where $lte is meant
lt(value, bound) == value < bound

\* {"$lte": bound}
lte(value, bound) == value <= bound

\* {"creator_id": creator_id, "is_draft": False, "access_level_required": {"$lte": tier_level}}
MatchesPostQuery(doc, creator_id, tier_level) ==
    /\ doc.creator_id = creator_id
    /\ doc.is_draft = FALSE
    /\ lte(doc.access_level_required, tier_level)

\* get_documents("post", query): the _ids of the matching documents, in store order
RECURSIVE get_documents(_, _, _, _)
get_documents(coll, i, creator_id, tier_level) ==
    IF i > Len(coll) THEN <<>>
    ELSE IF MatchesPostQuery(coll[i], creator_id, tier_level)
         THEN <<i>> \o get_documents(coll, i + 1, creator_id, tier_level)
         ELSE get_documents(coll, i + 1, creator_id, tier_level)

\* tier_level: int = 1
TierLevelDefault == 1
tier_level_param(given, value) == IF given THEN value ELSE TierLevelDefault

create_post(post) ==
    /\ Len(posts) < MaxPosts
    /\ IF ValidPost(post)
       THEN /\ posts' = create_document(posts, post)
            /\ response' = [NoResponse EXCEPT !.op = "create_post", !.id = post.creator_id,
                                              !.post_id = Len(posts) + 1, !.status = 200]
       ELSE /\ UNCHANGED posts
            /\ response' = [NoResponse EXCEPT !.op = "create_post", !.id = post.creator_id,
                                              !.status = 422]
    /\ UNCHANGED <<subs, comments>>
    /\ UNCHANGED ledgerVars

list_posts(creator_id, given, value) ==
    /\ response' = [NoResponse EXCEPT
                        !.op = "list_posts", !.id = creator_id,
                        !.given = given, !.tier_level = value, !.status = 200,
                        !.items = get_documents(posts, 1, creator_id,
                                                tier_level_param(given, value))]
    /\ UNCHANGED <<posts, subs, comments>>
    /\ UNCHANGED ledgerVars

\* ---------------------------------------------------- subscribe, comments
Subscription(user_id, creator_id, active) ==
    [user_id |-> user_id, creator_id |-> creator_id, active |-> active]

Comment(post_id, user_id) == [post_id |-> post_id, user_id |-> user_id]

subscribe(sub) ==
    /\ Cardinality(subs) < MaxSubs
    /\ subs' = subs \cup {sub}
    /\ response' = [NoResponse EXCEPT !.op = "subscribe", !.id = sub.user_id, !.status = 200]
    /\ UNCHANGED <<posts, comments>>
    /\ UNCHANGED ledgerVars

\* db["post"].find_one({"_id": {"$eq": post_id}})
post_exists(post_id) == post_id \in DOMAIN posts

\* the creator left out of the query
has_sub_any_creator(user_id, creator_id) ==
    \E s \in subs : s.user_id = user_id /\ s.active = TRUE

\* db["subscription"].find_one({"user_id": ..., "creator_id": ..., "active": True})
has_sub(user_id, creator_id) ==
    \E s \in subs : s.user_id = user_id /\ s.creator_id = creator_id /\ s.active = TRUE

add_comment(comment) ==
    /\ Cardinality(comments) < MaxComments
    /\ LET answer(status) == [NoResponse EXCEPT !.op = "add_comment", !.id = comment.user_id,
                                                !.post_id = comment.post_id, !.status = status]
       IN  IF ~post_exists(comment.post_id)
           THEN /\ response' = answer(404)
                /\ UNCHANGED comments
           ELSE IF ~has_sub(comment.user_id, posts[comment.post_id].creator_id)
                THEN /\ response' = answer(403)
                     /\ UNCHANGED comments
                ELSE /\ comments' = comments \cup {comment}
                     /\ response' = answer(200)
    /\ UNCHANGED <<posts, subs>>
    /\ UNCHANGED ledgerVars

\* ------------------------------------------------------- specifications
\* the levels tried: the low ones and the two around the schema's upper limit
Levels == ((MinLevel - 1)..MaxTier) \cup {MaxLevel, MaxLevel + 1}
PostIds == 1..(MaxPosts + 1)

CreatePost == \E c \in UserIds, l \in Levels, d \in BOOLEAN : create_post(Post(c, l, d))
CreateDefaultPost == \E c \in UserIds : create_post(DefaultPost(c))
ListPosts == \E c \in UserIds, given \in BOOLEAN, l \in Levels :
                /\ ~given => l = 0
                /\ list_posts(c, given, l)
Subscribe == \E u \in UserIds, c \in UserIds, active \in BOOLEAN : subscribe(Subscription(u, c, active))
AddComment == \E u \in UserIds, i \in PostIds : add_comment(Comment(i, u))

\* requests arrive at any time and their handlers interleave store call by store call
Next ==
    \E p \in Procs :
        \/ StartPurchase(p)
        \/ PurchaseFind(p)
        \/ PurchaseInsert(p)
        \/ PurchaseRefind(p)
        \/ PurchaseUpdate(p)
        \/ PurchaseLog(p)
        \/ StartTip(p)
        \/ TipFindFrom(p)
        \/ TipFindTo(p)
        \/ TipDebit(p)
        \/ TipCredit(p)
        \/ TipLog(p)
        \/ StorageFails(p)

Spec == Init /\ [][Next]_vars

\* tips only
NextTips ==
    \E p \in Procs :
        \/ StartTip(p)
        \/ TipFindFrom(p)
        \/ TipFindTo(p)
        \/ TipDebit(p)
        \/ TipCredit(p)
        \/ TipLog(p)
        \/ StorageFails(p)

SpecTips == Init /\ [][NextTips]_vars

\* one request at a time: request p arrives when the requests before it have ended
Turn(p) == \A q \in Procs : (q < p => pc[q] = "done") /\ (q > p => pc[q] = "idle")

SeqStartPurchase(p) == Turn(p) /\ StartPurchase(p)
SeqStartTip(p) == Turn(p) /\ StartTip(p)

NextSeq ==
    \E p \in Procs :
        \/ SeqStartPurchase(p)
        \/ PurchaseFind(p)
        \/ PurchaseInsert(p)
        \/ PurchaseRefind(p)
        \/ PurchaseUpdate(p)
        \/ PurchaseLog(p)
        \/ SeqStartTip(p)
        \/ TipFindFrom(p)
        \/ TipFindTo(p)
        \/ TipDebit(p)
        \/ TipCredit(p)
        \/ TipLog(p)
        \/ StorageFails(p)

SpecSeq == Init /\ [][NextSeq]_vars

\* the content endpoints, on a store with no accounts
InitGate == LedgerInit({[u \in UserIds |-> NoDoc]}) /\ GateInit

NextPosts == CreatePost \/ ListPosts

SpecPosts == InitGate /\ [][NextPosts]_vars

NextComments == CreateDefaultPost \/ Subscribe \/ AddComment

SpecComments == InitGate /\ [][NextComments]_vars

\* ------------------------------------------------------------ properties
RECURSIVE SumOver(_, _)
SumOver(S, f) ==
    IF S = {} THEN 0
    ELSE LET x == CHOOSE y \in S : TRUE IN f[x] + SumOver(S \ {x}, f)

Total(coll) == SumOver(UserIds, [u \in UserIds |-> coll[u].token_balance])

Rejections == {"InvalidAmount", "AccountNotFound", "InsufficientBalance"}

Ended(p) == pc[p] = "done"
Succeeded(p) == Ended(p) /\ result[p].status = "ok"
Rejected(p) == Ended(p) /\ result[p].status \in Rejections
Returned(p) == Succeeded(p) \/ Rejected(p)

\* every request issued so far has been answered by its handler (no server error)
AllReturned == \A p \in Procs : pc[p] = "idle" \/ Returned(p)

IsTip(p) == req[p].kind = "tip"
IsPurchase(p) == req[p].kind = "purchase"

Purchased == SumOver(Procs, [p \in Procs |-> IF IsPurchase(p) /\ Succeeded(p) THEN req[p].amount ELSE 0])

\* C1: every account's token balance is >= 0 in every reachable state, whatever
\* purchases and tips run and however their store calls interleave.
C1_NonNegative == \A u \in UserIds : users[u].token_balance >= 0

\* C2: two tips from the same account A, each within A's balance but together
\* beyond it: exactly one succeeds, the other fails with InsufficientBalance,
\* and A ends with its initial balance minus the one successful amount.
C2_ExactlyOneTip ==
    \A p, q \in Procs :
        ( /\ p # q
          /\ \A o \in Procs \ {p, q} : pc[o] = "idle"
          /\ IsTip(p) /\ IsTip(q)
          /\ Ended(p) /\ Ended(q)
          /\ result[p].status \in {"ok", "InsufficientBalance"}
          /\ result[q].status \in {"ok", "InsufficientBalance"}
          /\ req[p].from_user_id = req[q].from_user_id
          /\ req[p].to_user_id # req[p].from_user_id
          /\ req[q].to_user_id # req[q].from_user_id
          /\ req[p].amount <= users0[req[p].from_user_id].token_balance
          /\ req[q].amount <= users0[req[p].from_user_id].token_balance
          /\ req[p].amount + req[q].amount > users0[req[p].from_user_id].token_balance )
        => \E w \in {p, q} :
              /\ result[w].status = "ok"
              /\ \A l \in {p, q} \ {w} : result[l].status = "InsufficientBalance"
              /\ users[req[p].from_user_id].token_balance
                    = users0[req[p].from_user_id].token_balance - req[w].amount

\* C3: once all purchases and tips have completed, the sum of all balances is
\* the initial sum plus the amounts of the successful purchases.
C3_SumAfterCompletion ==
    AllReturned => Total(users) = Total(users0) + Purchased

\* C4: after any tips (sequential or interleaved, self-tips included) with no
\* purchase among them have completed, the sum of all balances is what it was
\* before them.
C4_TipsConserve ==
    (AllReturned /\ \A p \in Procs : ~IsPurchase(p)) => Total(users) = Total(users0)

C4_Witness ==
    /\ \A p \in Procs : Succeeded(p) /\ IsTip(p)
    /\ \E p \in Procs : req[p].from_user_id = req[p].to_user_id
    /\ \E p \in Procs : req[p].from_user_id # req[p].to_user_id
    /\ users # users0

\* C5: a tip that has stopped, for whatever reason, has not taken its amount
\* from from_id without adding it to to_id (a debit without credit is rolled back).
C5_AllOrNothing ==
    \A p \in Procs :
        ( /\ Ended(p) /\ IsTip(p)
          /\ \A o \in Procs \ {p} : pc[o] = "idle"
          /\ req[p].from_user_id # req[p].to_user_id
          /\ users[req[p].from_user_id].token_balance
                = users0[req[p].from_user_id].token_balance - req[p].amount )
        => users[req[p].to_user_id].token_balance
                = users0[req[p].to_user_id].token_balance + req[p].amount

\* C6: a rejected purchase or tip (InvalidAmount, AccountNotFound,
\* InsufficientBalance) changes no balance, creates no account and appends no
\* transaction record: while every request so far has been rejected the store is
\* the initial one, and the step that rejects a request leaves the store as it is.
C6_StoreUntouched ==
    (\A p \in Procs : pc[p] = "idle" \/ Rejected(p)) => (users = users0 /\ txlog = <<>>)

C6_RejectionStep ==
    \A p \in Procs :
        (~Ended(p) /\ pc'[p] = "done" /\ result'[p].status \in Rejections)
        => (users' = users /\ txlog' = txlog)

\* C6: every rejected operation leaves the store unchanged (both parts above).
C6_RejectedUnchanged == [](C6_StoreUntouched) /\ [][C6_RejectionStep]_vars

C6_Witness ==
    /\ \E p \in Procs : Rejected(p) /\ result[p].status = "InsufficientBalance"
    /\ \E p \in Procs : Rejected(p) /\ result[p].status = "AccountNotFound"
    /\ users = users0

\* C7: in a sequential run, n successful purchases on account A and nothing
\* else raise A's balance by the sum of their amounts (from 0 when A did not
\* exist), each returns the balance after its own increment, and the log holds
\* exactly n records of kind purchase, the q-th with the q-th amount.
RECURSIVE PaidUpTo(_)
PaidUpTo(n) == IF n = 0 THEN 0 ELSE req[n].amount + PaidUpTo(n - 1)

PurchasesOnly(a, n) ==
    /\ \A q \in Procs : q <= n =>
            Succeeded(q) /\ IsPurchase(q) /\ req[q].from_user_id = a
    /\ \A q \in Procs : q > n => pc[q] = "idle"

C7_SequentialPurchases ==
    \A a \in UserIds, n \in Procs :
        PurchasesOnly(a, n) =>
            /\ users[a].exists
            /\ users[a].token_balance = users0[a].token_balance + PaidUpTo(n)
            /\ \A q \in 1..n :
                    result[q].token_balance = users0[a].token_balance + PaidUpTo(q)
            /\ Len(txlog) = n
            /\ \A q \in 1..n :
                    txlog[q] = [from_user_id |-> "None", to_user_id |-> "None",
                                amount |-> req[q].amount, kind |-> "purchase"]

C7_Witness ==
    \E a \in UserIds :
        /\ PurchasesOnly(a, 2)
        /\ ~users0[a].exists
        /\ req[1].amount # req[2].amount

\* C8: a viewer with no active subscription (no tier level to supply) is shown
\* no post of the creator, not even one that requires level 1.
C8_NoTierNoPosts ==
    (response.op = "list_posts" /\ ~response.given) => response.items = <<>>

\* C9: the listing for (creator, L), L in 1..10, holds exactly the stored posts
\* of that creator that are no draft and require a level <= L, each once.
Listed == {response.items[k] : k \in DOMAIN response.items}

C9_ListingExact ==
    (response.op = "list_posts" /\ response.given
        /\ response.tier_level >= 1 /\ response.tier_level <= 10)
    => /\ Listed = {i \in DOMAIN posts :
                        /\ posts[i].creator_id = response.id
                        /\ ~posts[i].is_draft
                        /\ ~(posts[i].access_level_required > response.tier_level)}
       /\ Cardinality(Listed) = Len(response.items)

C9_Witness ==
    /\ response.op = "list_posts" /\ response.given
    /\ \E i, j \in DOMAIN posts :
        /\ posts[i].creator_id = response.id /\ posts[j].creator_id = response.id
        /\ ~posts[i].is_draft /\ ~posts[j].is_draft
        /\ posts[i].access_level_required = response.tier_level
        /\ posts[j].access_level_required = response.tier_level + 1
        /\ i \in Listed /\ j \notin Listed

\* C10: a comment is stored iff its post exists and its user holds a
\* subscription record to the post's creator with active = true; a missing post
\* is answered ContentNotFound (404), a missing, inactive or other-creator
\* subscription SubscriptionRequired (403), and neither stores a comment.
Subscribed(user_id, post_id) ==
    \E s \in subs : s = [user_id |-> user_id, creator_id |-> posts[post_id].creator_id,
                         active |-> TRUE]

C10_Stored ==
    \A c \in comments : c.post_id \in 1..Len(posts) /\ Subscribed(c.user_id, c.post_id)

C10_Answer ==
    response.op = "add_comment" =>
        LET found == response.post_id \in 1..Len(posts) IN
        /\ response.status = 404 <=> ~found
        /\ response.status = 403 <=> (found /\ ~Subscribed(response.id, response.post_id))
        /\ response.status = 200 <=> (found /\ Subscribed(response.id, response.post_id))
        /\ response.status = 200 =>
                [post_id |-> response.post_id, user_id |-> response.id] \in comments

C10_FailureStep ==
    (response'.op = "add_comment" /\ response'.status # 200) => comments' = comments

\* C10: stored comments are gated, the answers are the stated ones, and a
\* failed add_comment stores nothing (the three parts above).
C10_CommentGate == [](C10_Stored /\ C10_Answer) /\ [][C10_FailureStep]_vars

C10_Witness ==
    /\ response.op = "add_comment" /\ response.status = 200
    /\ \E s \in subs : ~s.active
    /\ comments # {}

====
